---------------------------- MODULE Spec2Model ----------------------------
(***************************************************************************)
(* Model of mcp-adb (src/src/index.ts): the startup pass that compiles     *)
(* TOML descriptors into dynamic tools, the render closure of a dynamic    *)
(* tool, executeCommandAsTool, and the temp-file handling of the           *)
(* inspect_ui and screenshot tools.                                        *)
(*                                                                         *)
(* Text is modelled as a sequence of one-character strings, so that the    *)
(* string operations of the source (match, replace, split/join, trim,      *)
(* includes) are computed character by character.                          *)
(***************************************************************************)
EXTENDS Integers, Sequences, FiniteSets, TLC

VARIABLES
    files,      \* fs.readdirSync(commandsDir): the listing, in listing order
    idx,        \* position of the `for (const file of files)` loop
    tools,      \* the dynamic tools registered so far, in registration order
    logged,     \* number of console.error calls of the registration catch
    phase,      \* "loading" (module load) or "ready" (server connected)
    call,       \* the last tool invocation served and what it returned
    inv,        \* the in-flight inspect_ui / screenshot invocations
    tmpfs,      \* local temp directory: file name -> content (or absent)
    sdcard,     \* device side: /sdcard/view.xml and /sdcard/screen.png
    clock       \* Date.now()

vars == <<files, idx, tools, logged, phase, call, inv, tmpfs, sdcard, clock>>

dynVars == <<files, idx, tools, logged, phase, call>>
tmpVars == <<inv, tmpfs, sdcard, clock>>

---------------------------------------------------------------------------
(* Bounds of the model *)

\* longest directory listing explored
MaxFiles == 3
\* number of pieces a generated command template is built from
MaxPieces == 2
\* largest value of Date.now() (milliseconds since the first invocation)
MaxClock == 2

---------------------------------------------------------------------------
(* Text primitives (JavaScript String semantics on character sequences) *)

Empty == << >>

\* characters matched by /\s/ and removed by String.prototype.trim
Whitespace == {" ", "\n", "\r", "\t"}

Min(S) == CHOOSE x \in S : \A y \in S : x <= y

Max(S) == CHOOSE x \in S : \A y \in S : x >= y

StartsAt(s, p, i) ==
    /\ i >= 1
    /\ i + Len(p) - 1 <= Len(s)
    /\ SubSeq(s, i, i + Len(p) - 1) = p

\* String.prototype.indexOf, 1-based; 0 when p does not occur at or after from
IndexOf(s, p, from) ==
    LET hits == {i \in from..(Len(s) - Len(p) + 1) : StartsAt(s, p, i)}
    IN  IF hits = {} THEN 0 ELSE Min(hits)

\* String.prototype.includes
Includes(s, p) == IndexOf(s, p, 1) # 0

\* s.replace(p, r) with a string pattern: the first occurrence only
ReplaceFirst(s, p, r) ==
    LET i == IndexOf(s, p, 1)
    IN  IF i = 0 THEN s
        ELSE SubSeq(s, 1, i - 1) \o r \o SubSeq(s, i + Len(p), Len(s))

\* s.split(p).join(r): every non-overlapping occurrence, left to right
RECURSIVE SplitJoin(_, _, _)
SplitJoin(s, p, r) ==
    LET i == IndexOf(s, p, 1)
    IN  IF i = 0 THEN s
        ELSE SubSeq(s, 1, i - 1) \o r
                 \o SplitJoin(SubSeq(s, i + Len(p), Len(s)), p, r)

\* s.replace(/c/g, r) for a single character class
ReplaceChars(s, class, r) ==
    [i \in 1..Len(s) |-> IF s[i] \in class THEN r ELSE s[i]]

\* String.prototype.trim
Trim(s) ==
    LET keep == {i \in 1..Len(s) : s[i] \notin Whitespace}
    IN  IF keep = {} THEN Empty ELSE SubSeq(s, Min(keep), Max(keep))

\* String(value) of a non-negative integer
Digit(d) == CASE d = 0 -> "0" [] d = 1 -> "1" [] d = 2 -> "2" [] d = 3 -> "3"
              [] d = 4 -> "4" [] d = 5 -> "5" [] d = 6 -> "6" [] d = 7 -> "7"
              [] d = 8 -> "8" [] d = 9 -> "9"

RECURSIVE NumToStr(_)
NumToStr(n) ==
    IF n < 10 THEN <<Digit(n)>> ELSE Append(NumToStr(n \div 10), Digit(n % 10))

---------------------------------------------------------------------------
(* The placeholder regex /<([^>]+)>/g *)

\* start of the first match at or after from, 0 if none: a "<", then at
\* least one character other than ">", then a ">"
MatchStart(s, from) ==
    LET hits == {i \in from..Len(s) :
                    /\ s[i] = "<"
                    /\ i + 1 <= Len(s)
                    /\ s[i + 1] # ">"
                    /\ \E j \in (i + 2)..Len(s) : s[j] = ">"}
    IN  IF hits = {} THEN 0 ELSE Min(hits)

\* index of the ">" closing the match that starts at i
MatchEnd(s, i) == Min({j \in (i + 2)..Len(s) : s[j] = ">"})

\* the capture groups of the successive paramRegex.exec(prompt) calls
RECURSIVE PlaceholderTexts(_, _)
PlaceholderTexts(s, from) ==
    LET i == MatchStart(s, from)
    IN  IF i = 0 THEN << >>
        ELSE <<SubSeq(s, i + 1, MatchEnd(s, i) - 1)>>
                 \o PlaceholderTexts(s, MatchEnd(s, i) + 1)

\* the replace without the g flag: the first placeholder only
StripPlaceholders_FirstOnly(s) ==
    LET i == MatchStart(s, 1)
    IN  IF i = 0 THEN s
        ELSE SubSeq(s, 1, i - 1) \o SubSeq(s, MatchEnd(s, i) + 1, Len(s))

\* s.replace(/<[^>]+>/g, "")
RECURSIVE StripPlaceholders(_)
StripPlaceholders(s) ==
    LET i == MatchStart(s, 1)
    IN  IF i = 0 THEN s
        ELSE SubSeq(s, 1, i - 1)
                 \o StripPlaceholders(SubSeq(s, MatchEnd(s, i) + 1, Len(s)))

---------------------------------------------------------------------------
(* Descriptor compilation: the body of the registration loop *)

ExampleMarker == <<"E", "x", "a", "m", "p", "l", "e", " ", "e", "x", "e", "c", "u", "t", "i", "o", "n", ":", " ">>

ParamNameMarker == <<"p", "a", "r", "a", "m", " ", "n", "a", "m", "e">>

TomlExt == <<".", "t", "o", "m", "l">>

\* characters the regex "." does not match
LineTerminators == {"\n", "\r"}

numberKeywords ==
    { <<"l", "e", "v", "e", "l">>, <<"p", "o", "r", "t">>,
      <<"d", "u", "r", "a", "t", "i", "o", "n">>, <<"l", "i", "m", "i", "t">>,
      <<"b", "r", "i", "g", "h", "t", "n", "e", "s", "s">>,
      <<"s", "t", "a", "t", "e">>, <<"p", "i", "d">>,
      <<"w", "i", "d", "t", "h">>, <<"h", "e", "i", "g", "h", "t">>,
      <<"s", "e", "c", "o", "n", "d", "s">>, <<"m", "s">>, <<"d", "p", "i">> }

\* path.extname(file)
ExtName(name) ==
    LET dots == {i \in 2..Len(name) : name[i] = "."}
    IN  IF dots = {} THEN Empty ELSE SubSeq(name, Max(dots), Len(name))

\* path.basename(file, ".toml")
BaseName(name, ext) ==
    IF Len(name) > Len(ext) /\ StartsAt(name, ext, Len(name) - Len(ext) + 1)
    THEN SubSeq(name, 1, Len(name) - Len(ext))
    ELSE name

\* path.basename(file, ".toml").replace(/-/g, "_")
toolName(name) == ReplaceChars(BaseName(name, TomlExt), {"-"}, "_")

\* prompt.match(/Example execution: (.+)/): the capture group of the first
\* match, Empty when there is no match (a match captures at least one
\* character, so Empty is never a capture)
ExecMatch(prompt) ==
    LET n == Len(ExampleMarker)
        hits == {i \in 1..Len(prompt) :
                    /\ StartsAt(prompt, ExampleMarker, i)
                    /\ i + n <= Len(prompt)
                    /\ prompt[i + n] \notin LineTerminators}
        b == Min(hits) + n
        stops == {j \in b..Len(prompt) : prompt[j] \in LineTerminators}
        e == IF stops = {} THEN Len(prompt) ELSE Min(stops) - 1
    IN  IF hits = {} THEN Empty ELSE SubSeq(prompt, b, e)

\* execMatch[1].trim()
commandTemplate(prompt) == Trim(ExecMatch(prompt))

\* original.replace("param name", "").trim().replace(/\s/g, "_").replace(/:/g, "_")
Clean(original) ==
    ReplaceChars(
        ReplaceChars(Trim(ReplaceFirst(original, ParamNameMarker, Empty)),
                     Whitespace, "_"),
        {":"}, "_")

\* a map that keeps the entry it already has for a key
ParamMapSet_KeepFirst(pm, original) ==
    LET clean == Clean(original)
        entry == [original |-> original, clean |-> clean]
    IN  IF clean = Empty \/ \E k \in 1..Len(pm) : pm[k].clean = clean THEN pm
        ELSE Append(pm, entry)

\* paramMap.set(clean, {original, clean}) on a Map kept as the sequence of
\* its entries in key insertion order: a key already present keeps its
\* position and takes the new value
ParamMapSet(pm, original) ==
    LET clean == Clean(original)
        entry == [original |-> original, clean |-> clean]
        at == {k \in 1..Len(pm) : pm[k].clean = clean}
    IN  IF clean = Empty THEN pm
        ELSE IF at = {} THEN Append(pm, entry)
        ELSE [pm EXCEPT ![Min(at)] = entry]

RECURSIVE ParamMapFrom(_, _, _)
ParamMapFrom(pm, texts, k) ==
    IF k > Len(texts) THEN pm
    ELSE ParamMapFrom(ParamMapSet(pm, texts[k]), texts, k + 1)

\* the while loop over paramRegex.exec(prompt)
paramMap(prompt) == ParamMapFrom(<< >>, PlaceholderTexts(prompt, 1), 1)

\* numberKeywords.some(k => clean.includes(k) || original.includes(k))
isNumber(p) ==
    \E k \in numberKeywords : Includes(p.clean, k) \/ Includes(p.original, k)

\* the zod shape: z.number() or z.string(), neither marked .optional()
shape(pm) ==
    [c \in {pm[k].clean : k \in 1..Len(pm)} |->
        LET p == pm[CHOOSE k \in 1..Len(pm) : pm[k].clean = c]
        IN  [kind |-> IF isNumber(p) THEN "number" ELSE "string",
             optional |-> FALSE,
             label |-> ReplaceChars(p.original, {"_"}, " ")]]

\* what one pass of the loop body hands to server.tool
Compile(file) ==
    [name |-> toolName(file.name),
     commandTemplate |-> commandTemplate(file.prompt),
     paramMap |-> paramMap(file.prompt),
     shape |-> shape(paramMap(file.prompt))]

---------------------------------------------------------------------------
(* The dynamic tool handler *)

\* String(value)
StringOf(v) == IF v.kind = "number" THEN NumToStr(v.n) ELSE v.s

\* the paramMap.forEach of the handler, from entry k on
RECURSIVE Substitute(_, _, _, _)
Substitute(finalCommand, pm, k, args) ==
    IF k > Len(pm) THEN finalCommand
    ELSE Substitute(
            IF pm[k].clean \in DOMAIN args
            THEN SplitJoin(finalCommand,
                           <<"<">> \o pm[k].original \o <<">">>,
                           StringOf(args[pm[k].clean]))
            ELSE finalCommand,
            pm, k + 1, args)

\* the command line the handler passes to executeCommandAsTool
Render(tool, args) ==
    Trim(StripPlaceholders(Substitute(tool.commandTemplate, tool.paramMap, 1, args)))

\* a handler that renders into the closure's commandTemplate itself
TemplateAfterCall_WriteBack(tool, finalCommand) == finalCommand

\* `let finalCommand = commandTemplate`: each call works on its own copy, the
\* closure's commandTemplate is what it was before the call
TemplateAfterCall(tool, finalCommand) == tool.commandTemplate

\* request validation with z.object(shape): every key of the shape that is
\* not optional must be present, and of the declared kind
Validates(sh, args) ==
    \A c \in DOMAIN sh :
        IF c \in DOMAIN args THEN args[c].kind = sh[c].kind ELSE sh[c].optional

\* the parsed arguments the handler receives: keys outside the shape dropped
Parsed(sh, args) == [c \in (DOMAIN sh) \cap (DOMAIN args) |-> args[c]]

---------------------------------------------------------------------------
(* executeCommandAsTool *)

NoOutputText == <<"C", "o", "m", "m", "a", "n", "d", " ", "e", "x", "e", "c", "u", "t", "e", "d", " ", "s", "u", "c", "c", "e", "s", "s", "f", "u", "l", "l", "y", " ", "(", "n", "o", " ", "o", "u", "t", "p", "u", "t", ")", ".">>

ErrorPrefix == <<"E", "r", "r", "o", "r", " ", "e", "x", "e", "c", "u", "t", "i", "n", "g", " ", "c", "o", "m", "m", "a", "n", "d", ":", " ">>

\* a || b on strings: the empty string is falsy
OrElse(a, b) == IF a # Empty THEN a ELSE b

\* the wrapper with stderr taken before stdout, and left out on failure
executeCommandAsTool_StderrFirst(o) ==
    IF o.ok
    THEN [thrown |-> FALSE, isError |-> FALSE,
          text |-> OrElse(o.stderr, OrElse(o.stdout, NoOutputText))]
    ELSE [thrown |-> FALSE, isError |-> TRUE,
          text |-> ErrorPrefix \o o.message \o <<"\n">>]

\* o is what execPromise(command) does: resolves with {stdout, stderr}, or
\* rejects with an error carrying message and, when hasStderr, stderr
executeCommandAsTool(o) ==
    IF o.ok
    THEN [thrown |-> FALSE, isError |-> FALSE,
          text |-> OrElse(o.stdout, OrElse(o.stderr, NoOutputText))]
    ELSE [thrown |-> FALSE, isError |-> TRUE,
          text |-> ErrorPrefix \o o.message \o <<"\n">>
                       \o (IF o.hasStderr THEN o.stderr ELSE Empty)]

---------------------------------------------------------------------------
(* The static tools built on executeCommandAsTool *)

AdbDevicesCommand == <<"a", "d", "b", " ", "d", "e", "v", "i", "c", "e", "s", " ", "-", "l">>

\* command.replace(/"/g, '\\"')
RECURSIVE EscapeQuotes(_)
EscapeQuotes(s) ==
    IF s = Empty THEN Empty
    ELSE (IF Head(s) = "\"" THEN <<"\\", "\"">> ELSE <<Head(s)>>)
             \o EscapeQuotes(Tail(s))

\* device ? `-s ${device} ` : "" (an absent device and "" are both falsy)
deviceArg(device) ==
    IF device = Empty THEN Empty ELSE <<"-", "s", " ">> \o device \o <<" ">>

AdbShellCommand(command, device) ==
    <<"a", "d", "b", " ">> \o deviceArg(device) \o <<"s", "h", "e", "l", "l", " ", "\"">> \o EscapeQuotes(command) \o <<"\"">>

---------------------------------------------------------------------------
(* Inputs explored *)

\* what the exec collaborator can do with a command line
ExecOutcomes ==
    [ok : {TRUE}, stdout : {Empty, <<"o">>}, stderr : {Empty, <<"e">>},
     message : {Empty}, hasStderr : {TRUE}]
    \cup
    [ok : {FALSE}, stdout : {Empty}, stderr : {Empty, <<"e">>},
     message : {<<"m">>}, hasStderr : {TRUE}]
    \cup
    [ok : {FALSE}, stdout : {Empty}, stderr : {Empty},
     message : {<<"m">>}, hasStderr : {FALSE}]

Num(n) == [kind |-> "number", n |-> n, s |-> Empty]

Str(s) == [kind |-> "string", n |-> 0, s |-> s]

\* values a caller supplies
ArgValues ==
    {Num(128), Str(<<"x">>), Str(<<"a", "<", "b", ">", "c">>), Str(<<" ", "<">>)}

\* the pieces generated command templates are concatenated from
Pieces ==
    { <<"e">>, <<" ">>, <<"<", "i", "d", ">">>, <<"<", "i", "d", " ", ">">>, <<"<", "m", "s", ">">>, <<"<", "p", "a", "r", "a", "m", " ", "n", "a", "m", "e", ">">>,
      <<"<", ">">>, <<"<">>, <<">">> }

RECURSIVE Concats(_)
Concats(n) ==
    IF n = 0 THEN {Empty}
    ELSE {a \o b : a \in Concats(n - 1), b \in Pieces}

\* the worked examples of the documentation of the render step
ExampleTemplates ==
    { <<"s", "e", "t", "t", "i", "n", "g", "s", " ", "p", "u", "t", " ", "s", "y", "s", "t", "e", "m", " ", "s", "c", "r", "e", "e", "n", "_", "b", "r", "i", "g", "h", "t", "n", "e", "s", "s", " ", "<", "p", "a", "r", "a", "m", " ", "n", "a", "m", "e", ":", " ", "l", "e", "v", "e", "l", ">">>,
      <<"<", "p", "a", "r", "a", "m", " ", "n", "a", "m", "e", ":", " ", "i", "d", ">", " ", "e", "c", "h", "o", " ", "<", "p", "a", "r", "a", "m", " ", "n", "a", "m", "e", ":", " ", "i", "d", ">">> }

Templates ==
    ExampleTemplates \cup UNION {Concats(n) : n \in 1..MaxPieces}

\* narrative text around the "Example execution:" line of a prompt
Narratives ==
    { [pre |-> Empty, post |-> Empty],
      [pre |-> <<"n", " ", "<", "m", "s", ">", "\n">>, post |-> Empty],
      [pre |-> Empty, post |-> <<"\n", "n", " ", "<", "i", "d", " ", ">">>] }

GeneratedPrompts ==
    {w.pre \o ExampleMarker \o tpl \o w.post : w \in Narratives, tpl \in Templates}

File(name, parses, prompt) == [name |-> name, parses |-> parses, prompt |-> prompt]

\* one descriptor per generated prompt
GeneratedFiles == {File(<<"t", ".", "t", "o", "m", "l">>, TRUE, q) : q \in GeneratedPrompts}

\* the entries directory listings are drawn from: three well-formed
\* descriptors, one without an "Example execution:" line, one entry that is
\* no .toml file, one .toml file whose content toml.parse rejects
GoodFiles ==
    { File(<<"a", ".", "t", "o", "m", "l">>, TRUE, ExampleMarker \o <<"e", " ", "<", "i", "d", ">">>),
      File(<<"b", "-", "c", ".", "t", "o", "m", "l">>, TRUE, <<"n", "\n">> \o ExampleMarker \o <<"<", "m", "s", ">">>),
      File(<<"d", ".", "t", "o", "m", "l">>, TRUE, ExampleMarker \o <<"e">>) }

NoExampleFile == File(<<"n", ".", "t", "o", "m", "l">>, TRUE, <<"n", " ", "<", "i", "d", ">">>)

OtherFile == File(<<"r", ".", "t", "x", "t">>, TRUE, Empty)

MalformedFile == File(<<"x", ".", "t", "o", "m", "l">>, FALSE, Empty)

DirFiles == GoodFiles \cup {NoExampleFile, OtherFile, MalformedFile}

\* listings: sequences of distinct directory entries
Listings(n) ==
    {l \in [1..n -> DirFiles] : \A i, j \in 1..n : i # j => l[i] # l[j]}

DirListings == UNION {Listings(n) : n \in 0..MaxFiles}

\* the raw name X of each placeholder written "<param name: X>"
KeyedNames(tool) ==
    {Trim(SubSeq(tool.paramMap[k].original, Len(ParamNameMarker) + 2,
                 Len(tool.paramMap[k].original))) :
        k \in {j \in 1..Len(tool.paramMap) :
                 StartsAt(tool.paramMap[j].original,
                          ParamNameMarker \o <<":">>, 1)}}

\* the argument names a caller may use for a tool
ArgKeys(tool) == (DOMAIN tool.shape) \cup KeyedNames(tool)

\* the argument maps a caller may send to a tool
ArgMaps(tool) ==
    UNION {[D -> ArgValues] : D \in SUBSET ArgKeys(tool)}

---------------------------------------------------------------------------
(* State *)

NoOutcome ==
    [ok |-> TRUE, stdout |-> Empty, stderr |-> Empty, message |-> Empty,
     hasStderr |-> TRUE]

NoResult == [thrown |-> FALSE, isError |-> FALSE, text |-> Empty]

NoCall ==
    [kind |-> "none", tool |-> 0, args |-> << >>, status |-> "none",
     cmdline |-> Empty, outcome |-> NoOutcome, res |-> NoResult]

Inv == {1, 2}

IdleInv ==
    [pc |-> "idle", kind |-> "none", tempFile |-> Empty,
     pulled |-> FALSE, readFrom |-> 0, lost |-> FALSE, isError |-> FALSE]

TmpIdle ==
    /\ inv = [i \in Inv |-> IdleInv]
    /\ tmpfs = {}
    /\ sdcard = {}
    /\ clock = 0

\* module load: nothing registered yet, the listing is what readdirSync returns
DynInit(listings) ==
    /\ files \in listings
    /\ idx = 1
    /\ tools = << >>
    /\ logged = 0
    /\ phase = "loading"
    /\ call = NoCall

\* the server started on a directory of descriptors; the tool ids of a
\* listing are distinct and differ from the static tools' ids, so that
\* server.tool does not throw
Init ==
    /\ DynInit(DirListings)
    /\ TmpIdle

---------------------------------------------------------------------------
(* The registration loop, lines 149-197, one action per way through the body *)

InLoop == phase = "loading" /\ idx <= Len(files)

\* `if (path.extname(file) !== ".toml") continue`
SkipNonToml ==
    /\ InLoop
    /\ ExtName(files[idx].name) # TomlExt
    /\ idx' = idx + 1
    /\ UNCHANGED <<files, tools, logged, phase, call, tmpVars>>

\* toml.parse throws: control leaves the for loop for the catch around it
\* (line 195), which logs; the rest of the listing is never visited
ParseFail ==
    /\ InLoop
    /\ ExtName(files[idx].name) = TomlExt
    /\ ~files[idx].parses
    /\ logged' = logged + 1
    /\ idx' = Len(files) + 1
    /\ UNCHANGED <<files, tools, phase, call, tmpVars>>

\* `if (!execMatch || !execMatch[1]) continue`
SkipNoExec ==
    /\ InLoop
    /\ ExtName(files[idx].name) = TomlExt
    /\ files[idx].parses
    /\ ExecMatch(files[idx].prompt) = Empty
    /\ idx' = idx + 1
    /\ UNCHANGED <<files, tools, logged, phase, call, tmpVars>>

\* server.tool(toolName, shape, handler)
RegisterTool ==
    /\ InLoop
    /\ ExtName(files[idx].name) = TomlExt
    /\ files[idx].parses
    /\ ExecMatch(files[idx].prompt) # Empty
    /\ tools' = Append(tools, Compile(files[idx]))
    /\ idx' = idx + 1
    /\ UNCHANGED <<files, logged, phase, call, tmpVars>>

\* main(): server.connect(transport), after the module body has run
Connect ==
    /\ phase = "loading"
    /\ idx > Len(files)
    /\ phase' = "ready"
    /\ UNCHANGED <<files, idx, tools, logged, call, tmpVars>>

---------------------------------------------------------------------------
(* Tool invocations built on executeCommandAsTool *)

\* a request whose arguments the schema rejects: the handler is not called
InvokeRejected ==
    /\ phase = "ready"
    /\ \E t \in 1..Len(tools) : \E args \in ArgMaps(tools[t]) :
        /\ ~Validates(tools[t].shape, args)
        /\ call' = [kind |-> "dynamic", tool |-> t, args |-> args,
                    status |-> "rejected", cmdline |-> Empty,
                    outcome |-> NoOutcome, res |-> NoResult]
    /\ UNCHANGED <<files, idx, tools, logged, phase, tmpVars>>

\* a dynamic tool's handler, lines 182-192
InvokeDynamic ==
    /\ phase = "ready"
    /\ \E t \in 1..Len(tools) : \E args \in ArgMaps(tools[t]) :
       \E o \in ExecOutcomes :
        LET finalCommand == Render(tools[t], Parsed(tools[t].shape, args))
        IN  /\ Validates(tools[t].shape, args)
            /\ call' = [kind |-> "dynamic", tool |-> t, args |-> args,
                        status |-> "returned", cmdline |-> finalCommand,
                        outcome |-> o, res |-> executeCommandAsTool(o)]
            /\ tools' = [tools EXCEPT ![t].commandTemplate =
                            TemplateAfterCall(tools[t], finalCommand)]
    /\ UNCHANGED <<files, idx, logged, phase, tmpVars>>

\* adb_devices, lines 61-66
AdbDevices ==
    /\ phase = "ready"
    /\ \E o \in ExecOutcomes :
        call' = [kind |-> "adb_devices", tool |-> 0, args |-> << >>,
                 status |-> "returned", cmdline |-> AdbDevicesCommand,
                 outcome |-> o, res |-> executeCommandAsTool(o)]
    /\ UNCHANGED <<files, idx, tools, logged, phase, tmpVars>>

ShellCommands == {<<"l", "s">>, <<"e", "c", "h", "o", " ", "\"", "a", "\"">>}

Devices == {Empty, <<"d", "1">>}

\* adb_shell, lines 68-79
AdbShell ==
    /\ phase = "ready"
    /\ \E command \in ShellCommands : \E device \in Devices :
       \E o \in ExecOutcomes :
        call' = [kind |-> "adb_shell", tool |-> 0, args |-> << >>,
                 status |-> "returned",
                 cmdline |-> AdbShellCommand(command, device),
                 outcome |-> o, res |-> executeCommandAsTool(o)]
    /\ UNCHANGED <<files, idx, tools, logged, phase, tmpVars>>

Next ==
    \/ SkipNonToml
    \/ ParseFail
    \/ SkipNoExec
    \/ RegisterTool
    \/ Connect
    \/ InvokeRejected
    \/ InvokeDynamic
    \/ AdbDevices
    \/ AdbShell

Spec == Init /\ [][Next]_vars

\* the server started on a directory holding one generated descriptor, and
\* the steps a well-formed descriptor goes through
RenderInit ==
    /\ DynInit({<<f>> : f \in GeneratedFiles})
    /\ TmpIdle

RenderNext ==
    \/ RegisterTool
    \/ Connect
    \/ InvokeRejected
    \/ InvokeDynamic

RenderSpec == RenderInit /\ [][RenderNext]_vars

---------------------------------------------------------------------------
(* inspect_ui and screenshot: the temp file of an invocation *)

ToolKinds == {"inspect_ui", "screenshot"}

\* path.join(tempDir, `view-${Date.now()}.xml`) and `screen-${Date.now()}.png`,
\* as the file name inside the temp directory
tempFile(kind, now) ==
    IF kind = "inspect_ui"
    THEN <<"v", "i", "e", "w", "-">> \o NumToStr(now) \o <<".", "x", "m", "l">>
    ELSE <<"s", "c", "r", "e", "e", "n", "-">> \o NumToStr(now) \o <<".", "p", "n", "g">>

\* the temp directory is a set of files, one per name
Exists(fs, name) == \E f \in fs : f.name = name

FileAt(fs, name) == CHOOSE f \in fs : f.name = name

Unlink(fs, name) == {f \in fs : f.name # name}

\* writer is the invocation whose pull wrote the file, data the invocation
\* whose dump or capture produced what was pulled
WriteFile(fs, name, writer, data, complete) ==
    Unlink(fs, name)
        \cup {[name |-> name, writer |-> writer, data |-> data,
                complete |-> complete]}

\* the invocation that last wrote the device file of this kind
OnDevice(kind) == (CHOOSE f \in sdcard : f.kind = kind).writer

\* the invocation enters its handler: deviceArg, tempDir and tempFile are
\* computed and the first adb command is started, all before the first await
Start(i) ==
    /\ inv[i].pc = "idle"
    /\ \E kind \in ToolKinds :
        inv' = [inv EXCEPT ![i] =
                  [pc |-> "dump", kind |-> kind,
                   tempFile |-> tempFile(kind, clock),
                   pulled |-> FALSE, readFrom |-> 0, lost |-> FALSE,
                   isError |-> FALSE]]
    /\ UNCHANGED <<tmpfs, sdcard, clock, dynVars>>

\* a millisecond passes
Tick ==
    /\ clock < MaxClock
    /\ clock' = clock + 1
    /\ UNCHANGED <<inv, tmpfs, sdcard, dynVars>>

\* `uiautomator dump /sdcard/view.xml` or `screencap -p /sdcard/screen.png`
\* succeeds; the handler goes on to start `adb pull`
DumpOk(i) ==
    /\ inv[i].pc = "dump"
    /\ sdcard' = {f \in sdcard : f.kind # inv[i].kind}
                     \cup {[kind |-> inv[i].kind, writer |-> i]}
    /\ inv' = [inv EXCEPT ![i].pc = "pull"]
    /\ UNCHANGED <<tmpfs, clock, dynVars>>

\* the first adb command fails: the catch returns the error result
DumpFail(i) ==
    /\ inv[i].pc = "dump"
    /\ inv' = [inv EXCEPT ![i].pc = "done", ![i].isError = TRUE]
    /\ UNCHANGED <<tmpfs, sdcard, clock, dynVars>>

\* `adb pull` writes tempFile and exits 0; the handler resumes on a later turn
PullOk(i) ==
    /\ inv[i].pc = "pull"
    /\ tmpfs' = WriteFile(tmpfs, inv[i].tempFile, i, OnDevice(inv[i].kind), TRUE)
    /\ inv' = [inv EXCEPT ![i].pc = "read", ![i].pulled = TRUE]
    /\ UNCHANGED <<sdcard, clock, dynVars>>

\* `adb pull` fails, before or after it created the local file; the catch
\* returns the error result, nothing unlinks tempFile
PullFail(i) ==
    /\ inv[i].pc = "pull"
    /\ \E created \in BOOLEAN :
        tmpfs' = IF created
                 THEN WriteFile(tmpfs, inv[i].tempFile, i,
                                OnDevice(inv[i].kind), FALSE)
                 ELSE tmpfs
    /\ inv' = [inv EXCEPT ![i].pc = "done", ![i].isError = TRUE]
    /\ UNCHANGED <<sdcard, clock, dynVars>>

\* readFileSync, unlinkSync and the return, one synchronous stretch
ReadAndUnlink(i) ==
    /\ inv[i].pc = "read"
    /\ Exists(tmpfs, inv[i].tempFile)
    /\ inv' = [inv EXCEPT ![i].pc = "done",
                          ![i].readFrom = FileAt(tmpfs, inv[i].tempFile).writer]
    /\ tmpfs' = Unlink(tmpfs, inv[i].tempFile)
    /\ UNCHANGED <<sdcard, clock, dynVars>>

\* readFileSync throws (the file is gone, or cannot be read): the catch
\* returns the error result, unlinkSync is not reached; lost records that
\* the file this invocation pulled was no longer there
ReadFail(i) ==
    /\ inv[i].pc = "read"
    /\ inv' = [inv EXCEPT ![i].pc = "done", ![i].isError = TRUE,
                          ![i].lost = ~Exists(tmpfs, inv[i].tempFile)]
    /\ UNCHANGED <<tmpfs, sdcard, clock, dynVars>>

TempInit ==
    /\ files = << >>
    /\ idx = 1
    /\ tools = << >>
    /\ logged = 0
    /\ phase = "ready"
    /\ call = NoCall
    /\ TmpIdle

TempNext ==
    \/ Tick
    \/ \E i \in Inv : Start(i)
    \/ \E i \in Inv : DumpOk(i)
    \/ \E i \in Inv : DumpFail(i)
    \/ \E i \in Inv : PullOk(i)
    \/ \E i \in Inv : PullFail(i)
    \/ \E i \in Inv : ReadAndUnlink(i)
    \/ \E i \in Inv : ReadFail(i)

TempSpec == TempInit /\ [][TempNext]_vars

---------------------------------------------------------------------------
(* Definitions the properties are stated with *)

Range(s) == {s[i] : i \in 1..Len(s)}

\* a "<", one or more characters other than ">", a ">"
BracketDelimited(s) ==
    \E i, j \in 1..Len(s) :
        /\ i + 1 < j
        /\ s[i] = "<"
        /\ s[j] = ">"
        /\ \A k \in (i + 1)..(j - 1) : s[k] # ">"

Untrimmed(s) ==
    s # Empty /\ (s[1] \in Whitespace \/ s[Len(s)] \in Whitespace)

NoBrackets(s) == "<" \notin Range(s) /\ ">" \notin Range(s)

\* every "<" and ">" of s delimits a placeholder, and no placeholder text
\* holds a "<"
PlainBrackets(s) ==
    /\ \A k \in 1..Len(PlaceholderTexts(s, 1)) :
          "<" \notin Range(PlaceholderTexts(s, 1)[k])
    /\ NoBrackets(StripPlaceholders(s))

Registrable(f) ==
    ExtName(f.name) = TomlExt /\ f.parses /\ ExecMatch(f.prompt) # Empty

\* the descriptors of the listing that can become tools, in listing order;
\* tool number t, when registered, comes from RegisteredFrom[t]
RegisteredFrom == SelectSeq(files, Registrable)

Returned == call.kind = "dynamic" /\ call.status = "returned"

CalledTool == tools[call.tool]

\* "<param name: X>"
KeyedPlaceholder(X) ==
    <<"<">> \o ParamNameMarker \o <<":", " ">> \o X \o <<">">>

\* the places of the raw texts of a prompt that normalize to c
PlacesOf(texts, c) == {i \in 1..Len(texts) : Clean(texts[i]) = c}

RECURSIVE Ascending(_)
Ascending(S) ==
    IF S = {} THEN << >> ELSE <<Min(S)>> \o Ascending(S \ {Min(S)})

\* the parameters of a prompt, one per canonical identifier in order of
\* first occurrence, each with the raw text found at place pick(places)
ParamsKeeping(prompt, pick(_)) ==
    LET texts == PlaceholderTexts(prompt, 1)
        firsts == Ascending({i \in 1..Len(texts) :
                               /\ Clean(texts[i]) # Empty
                               /\ i = Min(PlacesOf(texts, Clean(texts[i])))})
    IN  [k \in 1..Len(firsts) |->
            [original |-> texts[pick(PlacesOf(texts, Clean(texts[firsts[k]])))],
             clean |-> Clean(texts[firsts[k]])]]

LabelsOf(pm) ==
    {<<pm[k].clean, ReplaceChars(pm[k].original, {"_"}, " ")>> : k \in 1..Len(pm)}

LabelsIn(sh) == {<<c, sh[c].label>> : c \in DOMAIN sh}

\* the tools behave as if each parameter kept the raw text at pick(places)
BehavesAsKeeping(pick(_)) ==
    /\ \A u \in 1..Len(tools) :
        /\ tools[u].paramMap = ParamsKeeping(RegisteredFrom[u].prompt, pick)
        /\ LabelsIn(tools[u].shape) = LabelsOf(ParamsKeeping(RegisteredFrom[u].prompt, pick))
    /\ Returned =>
          call.cmdline =
              Trim(StripPlaceholders(
                  Substitute(CalledTool.commandTemplate,
                             ParamsKeeping(RegisteredFrom[call.tool].prompt, pick),
                             1, Parsed(CalledTool.shape, call.args))))

\* the rendering in which a template is literal text and placeholders, each
\* placeholder of a supplied parameter gives way to the value, every other
\* placeholder to nothing, and nothing else is touched before the final trim
RECURSIVE FillPlaceholders(_, _, _)
FillPlaceholders(s, pm, args) ==
    LET i == MatchStart(s, 1)
        text == SubSeq(s, i + 1, MatchEnd(s, i) - 1)
        hit == {k \in 1..Len(pm) :
                   pm[k].original = text /\ pm[k].clean \in DOMAIN args}
    IN  IF i = 0 THEN s
        ELSE SubSeq(s, 1, i - 1)
                 \o (IF hit = {} THEN Empty
                     ELSE StringOf(args[pm[Min(hit)].clean]))
                 \o FillPlaceholders(SubSeq(s, MatchEnd(s, i) + 1, Len(s)), pm, args)

---------------------------------------------------------------------------
(* Properties *)

\* C1 (as claimed): when the listing holds only .toml files, exactly one of
\* which fails to parse while the others are well-formed, then once the
\* registration pass is over every well-formed descriptor is a registered
\* tool, wherever the malformed file stands in the listing, and the failure
\* was logged.
C1_PartialFailureIsolation ==
    ( /\ phase = "ready"
      /\ Cardinality({i \in 1..Len(files) : ~files[i].parses}) = 1
      /\ \A i \in 1..Len(files) :
            ExtName(files[i].name) = TomlExt
            /\ (files[i].parses => Registrable(files[i])) )
    => /\ {tools[u].name : u \in 1..Len(tools)}
              = {toolName(files[i].name) :
                    i \in {j \in 1..Len(files) : files[j].parses}}
       /\ logged = 1

\* C2 (as claimed): a tool whose template holds "<param name: X>" and no
\* other placeholder, called with the argument map {X: v}, v of the kind
\* inferred for that placeholder, runs the template with every occurrence of
\* the placeholder replaced by the string form of v.
C2_KeyedPlaceholderRendered ==
    \A X \in (IF call.kind = "dynamic" THEN DOMAIN call.args ELSE {}) :
        ( /\ DOMAIN call.args = {X}
          /\ NoBrackets(StringOf(call.args[X]))
          /\ \E c \in DOMAIN CalledTool.shape :
                /\ KeyedPlaceholder(X) = <<"<">> \o CalledTool.shape[c].label \o <<">">>
                /\ CalledTool.shape[c].kind = call.args[X].kind
          /\ Includes(CalledTool.commandTemplate, KeyedPlaceholder(X))
          /\ NoBrackets(SplitJoin(CalledTool.commandTemplate,
                                  KeyedPlaceholder(X), Empty)) )
        => /\ call.status = "returned"
           /\ call.cmdline = SplitJoin(CalledTool.commandTemplate,
                                       KeyedPlaceholder(X),
                                       StringOf(call.args[X]))

\* C3: the command line a dynamic tool hands to executeCommandAsTool, and
\* the command line its render gives for every argument map (the empty map
\* included), holds no "<", text, ">" placeholder and no leading or trailing
\* whitespace.
C3_NoPlaceholderReachesExecution ==
    /\ Returned =>
          ~BracketDelimited(call.cmdline) /\ ~Untrimmed(call.cmdline)
    /\ (phase = "ready" /\ call.kind = "none") =>
          \A u \in 1..Len(tools) : \A args \in ArgMaps(tools[u]) :
              /\ ~BracketDelimited(Render(tools[u], args))
              /\ ~Untrimmed(Render(tools[u], args))

\* C3 witness: a call was executed on a tool whose template holds a
\* placeholder, with a supplied value that itself holds one.
C3_Witness ==
    /\ Returned
    /\ BracketDelimited(CalledTool.commandTemplate)
    /\ PlainBrackets(CalledTool.commandTemplate)
    /\ \E c \in DOMAIN call.args : BracketDelimited(StringOf(call.args[c]))

\* C4 (as claimed): a call to a dynamic tool (here one whose template has
\* brackets only around placeholders) in which every supplied value is of
\* the declared kind passes validation and is executed, whichever parameters
\* of the schema it omits.
C4_OmittedParametersAccepted ==
    ( /\ call.kind = "dynamic"
      /\ PlainBrackets(CalledTool.commandTemplate)
      /\ \A c \in (DOMAIN CalledTool.shape) \cap (DOMAIN call.args) :
            call.args[c].kind = CalledTool.shape[c].kind )
    => call.status = "returned"

\* C5: every call of executeCommandAsTool returns a result and does not
\* throw; on success the result is not error-flagged and its text is stdout
\* if non-empty, else stderr if non-empty, else the "no output" sentence; on
\* failure the result is error-flagged and its text holds the failure message
\* and the captured stderr.
C5_ExecutionResultWrapping ==
    call.status = "returned" =>
        /\ ~call.res.thrown
        /\ call.outcome.ok =>
              /\ ~call.res.isError
              /\ call.outcome.stdout # Empty => call.res.text = call.outcome.stdout
              /\ (call.outcome.stdout = Empty /\ call.outcome.stderr # Empty)
                    => call.res.text = call.outcome.stderr
              /\ (call.outcome.stdout = Empty /\ call.outcome.stderr = Empty)
                    => call.res.text = NoOutputText
        /\ ~call.outcome.ok =>
              /\ call.res.isError
              /\ Includes(call.res.text, call.outcome.message)
              /\ call.outcome.hasStderr => Includes(call.res.text, call.outcome.stderr)

\* C5 witness: a command failed after writing to stderr and the call returned.
C5_Witness ==
    /\ call.status = "returned"
    /\ ~call.outcome.ok
    /\ call.outcome.hasStderr
    /\ call.outcome.stderr # Empty

\* C6 (as claimed): when an inspect_ui or screenshot invocation has
\* returned, the temp file it named is not in the temp directory.
C6_TempFileReleased ==
    \A i \in Inv : inv[i].pc = "done" => ~Exists(tmpfs, inv[i].tempFile)

\* C7: whatever invocations have been served, every compiled tool (template,
\* parameter map, schema) is still what the startup pass compiled from its
\* descriptor, and the command line a dynamic tool executes is the render of
\* that compiled tool for the arguments of the call, so it depends on the
\* tool and the arguments alone.
C7_StatelessRendering ==
    /\ \A u \in 1..Len(tools) : tools[u] = Compile(RegisteredFrom[u])
    /\ Returned =>
          LET compiled == Compile(RegisteredFrom[call.tool])
          IN  call.cmdline = Render(compiled, Parsed(compiled.shape, call.args))

\* C7 witness: a call was executed whose render substituted a value, and the
\* tool is still what startup compiled.
C7_Witness ==
    /\ Returned
    /\ call.cmdline # CalledTool.commandTemplate
    /\ \E c \in DOMAIN call.args : Includes(call.cmdline, StringOf(call.args[c]))
    /\ CalledTool = Compile(RegisteredFrom[call.tool])

C9_ExclusiveTempFile ==
    \A i \in Inv : inv[i].readFrom \in {0, i} /\ ~inv[i].lost

\* C10 (as claimed): in the command line a dynamic tool executes, each
\* placeholder of a supplied parameter has given way to the string form of
\* the value, unchanged, every other placeholder to nothing, and the literal
\* text of the template is as it was, up to the final trim.
C10_SuppliedValuesVerbatim ==
    (Returned /\ PlainBrackets(CalledTool.commandTemplate)) =>
        call.cmdline =
            Trim(FillPlaceholders(CalledTool.commandTemplate,
                                  CalledTool.paramMap,
                                  Parsed(CalledTool.shape, call.args)))

===========================================================================
